---- MODULE Spec2Model ----
(***************************************************************************)
(* Model of the OCL flexible importer (OclFlexImporter, OclImportResults)  *)
(* of src/oclfleximporter.py.                                              *)
(*                                                                         *)
(* Strings that take part in address arithmetic are sequences of tokens:   *)
(* the token "/" is the path separator, every other token is a name that   *)
(* contains no separator.  '' is << >> and + is \o.                        *)
(***************************************************************************)
EXTENDS Integers, Sequences, FiniteSets, TLC

\* ---------------------------------------------------------------- bounds
\* Largest number of lines of the import file.
MaxLines == 2
\* Largest number of network faults (unexpected status, connection error) in a run.
MaxFaults == 1

\* The outcomes recorded when OclImportResults is exercised on its own.
MaxOutcomes == 2

\* ------------------------------------------------------------- constants
OBJ_TYPE_USER == "User"
OBJ_TYPE_ORGANIZATION == "Organization"
OBJ_TYPE_SOURCE == "Source"
OBJ_TYPE_COLLECTION == "Collection"
OBJ_TYPE_CONCEPT == "Concept"
OBJ_TYPE_MAPPING == "Mapping"
OBJ_TYPE_REFERENCE == "Reference"
OBJ_TYPE_SOURCE_VERSION == "Source Version"
OBJ_TYPE_COLLECTION_VERSION == "Collection Version"

ACTION_TYPE_NEW == "new"
ACTION_TYPE_UPDATE == "update"

SKIP_KEY == <<"SKIPPED">>
NO_OBJECT_TYPE_KEY == "NO-OBJECT-TYPE"
ORGS_RESULTS_ROOT == <<"/", "orgs", "/">>
USERS_RESULTS_ROOT == <<"/", "users", "/">>

\* Python's None, where a string is expected.
None == <<"<None>">>
\* The path separator and a one-name string.
Sep == <<"/">>
Str(name) == <<name>>

\* requests.codes.ok and requests.codes.not_found.
StatusOk == 200
StatusNotFound == 404

\* Resource type definitions.
obj_def ==
  [t \in {OBJ_TYPE_ORGANIZATION, OBJ_TYPE_SOURCE, OBJ_TYPE_COLLECTION, OBJ_TYPE_CONCEPT,
          OBJ_TYPE_MAPPING, OBJ_TYPE_REFERENCE, OBJ_TYPE_SOURCE_VERSION,
          OBJ_TYPE_COLLECTION_VERSION} |->
    CASE t = OBJ_TYPE_ORGANIZATION ->
           [id_field |-> {"id"}, url_name |-> "orgs", has_owner |-> FALSE,
            has_source |-> FALSE, has_collection |-> FALSE, omit_resource_name_on_get |-> FALSE,
            allowed_fields |-> {"id", "company", "extras", "location", "name",
                                "public_access", "website"},
            create_method |-> "POST", update_method |-> "POST"]
      [] t = OBJ_TYPE_SOURCE ->
           [id_field |-> {"id"}, url_name |-> "sources", has_owner |-> TRUE,
            has_source |-> FALSE, has_collection |-> FALSE, omit_resource_name_on_get |-> FALSE,
            allowed_fields |-> {"id", "short_code", "name", "full_name", "description",
                                "source_type", "custom_validation_schema", "public_access",
                                "default_locale", "supported_locales", "website", "extras",
                                "external_id"},
            create_method |-> "POST", update_method |-> "POST"]
      [] t = OBJ_TYPE_COLLECTION ->
           [id_field |-> {"id"}, url_name |-> "collections", has_owner |-> TRUE,
            has_source |-> FALSE, has_collection |-> FALSE, omit_resource_name_on_get |-> FALSE,
            allowed_fields |-> {"id", "short_code", "name", "full_name", "description",
                                "collection_type", "custom_validation_schema", "public_access",
                                "default_locale", "supported_locales", "website", "extras",
                                "external_id"},
            create_method |-> "POST", update_method |-> "POST"]
      [] t = OBJ_TYPE_CONCEPT ->
           [id_field |-> {"id"}, url_name |-> "concepts", has_owner |-> TRUE,
            has_source |-> TRUE, has_collection |-> FALSE, omit_resource_name_on_get |-> FALSE,
            allowed_fields |-> {"id", "external_id", "concept_class", "datatype", "names",
                                "descriptions", "retired", "extras"},
            create_method |-> "POST", update_method |-> "POST"]
      [] t = OBJ_TYPE_MAPPING ->
           [id_field |-> {"id"}, url_name |-> "mappings", has_owner |-> TRUE,
            has_source |-> TRUE, has_collection |-> FALSE, omit_resource_name_on_get |-> FALSE,
            allowed_fields |-> {"id", "map_type", "from_concept_url", "to_source_url",
                                "to_concept_url", "to_concept_code", "to_concept_name",
                                "extras", "external_id"},
            create_method |-> "POST", update_method |-> "POST"]
      [] t = OBJ_TYPE_REFERENCE ->
           [id_field |-> {}, url_name |-> "references", has_owner |-> TRUE,
            has_source |-> FALSE, has_collection |-> TRUE, omit_resource_name_on_get |-> FALSE,
            allowed_fields |-> {"data"},
            create_method |-> "PUT", update_method |-> "None"]
      [] t = OBJ_TYPE_SOURCE_VERSION ->
           [id_field |-> {"id"}, url_name |-> "versions", has_owner |-> TRUE,
            has_source |-> TRUE, has_collection |-> FALSE, omit_resource_name_on_get |-> TRUE,
            allowed_fields |-> {"id", "external_id", "description", "released"},
            create_method |-> "POST", update_method |-> "POST"]
      [] OTHER ->
           [id_field |-> {"id"}, url_name |-> "versions", has_owner |-> TRUE,
            has_source |-> FALSE, has_collection |-> TRUE, omit_resource_name_on_get |-> TRUE,
            allowed_fields |-> {"id", "external_id", "description", "released"},
            create_method |-> "POST", update_method |-> "POST"]]

\* ------------------------------------------------------------- the state
VARIABLES
  self_obj_def,         \* self.obj_def
  test_mode,            \* self.test_mode
  do_update_if_exists,  \* self.do_update_if_exists
  limit,                \* self.limit
  num_lines,            \* the number of lines of the file
  count,                \* count of process(): the lines read
  pc,                   \* where process() stands
  error,                \* the exception that ended process(), or "none"
  cur,                  \* the locals of process_object for the line in hand
  cache_obj_exists,     \* self.cache_obj_exists
  import_results,       \* self.import_results
  server,               \* the addresses that exist on the server
  faults,               \* the network faults so far
  file,                 \* the lines read so far
  trace                 \* the network calls and aggregator calls so far

vars ==
  <<self_obj_def, test_mode, do_update_if_exists, limit, num_lines, count, pc, error, cur,
    cache_obj_exists, import_results, server, faults, file, trace>>

config == <<self_obj_def, test_mode, do_update_if_exists, limit, num_lines>>

\* --------------------------------------------------------------- helpers
\* dict.pop(k, None): the dictionary without key k.
Pop(obj, k) == [f \in (DOMAIN obj) \ {k} |-> obj[f]]

\* Python truthiness of a string value that may be None.
Truthy(s) == s # None /\ s # << >>

\* The 1-based positions of the separator in a string.
SepPositions(haystack) == {i \in 1..Len(haystack) : haystack[i] = "/"}

\* haystack.find('/', from): 0-based index of the first separator at or
\* after the 0-based index from, or -1.
Find(haystack, from) ==
  LET later == {i \in SepPositions(haystack) : i - 1 >= from}
  IN IF later = {} THEN -1
     ELSE (CHOOSE i \in later : \A j \in later : i <= j) - 1

\* The while loop of find_nth, from the current start and n.
RECURSIVE FindNthLoop(_, _, _)
FindNthLoop(haystack, start, n) ==
  IF start >= 0 /\ n > 1
  THEN FindNthLoop(haystack, Find(haystack, start + 1), n - 1)
  ELSE start

\* find_nth(haystack, '/', n): 0-based index of the n-th separator, or -1.
find_nth(haystack, n) == FindNthLoop(haystack, Find(haystack, 0), n)

\* haystack[:k] for k >= 0.
Prefix(haystack, k) ==
  SubSeq(haystack, 1, IF k < Len(haystack) THEN k ELSE Len(haystack))

\* ------------------------------------------------------------ resolution
\* The part of process_object before the first network call: the id, the
\* owner, repository and object addresses, the query parameters and the
\* partition of the remaining fields.  err names the exception raised, and
\* the fields after it are then meaningless.
ResolveOwner(obj_type, obj0) ==
  LET def == self_obj_def[obj_type]
      has_source == def.has_source
      has_collection == (~def.has_source) /\ def.has_collection
  IN IF ~def.has_owner THEN [err |-> "none", url |-> None, obj |-> obj0]
     ELSE IF "owner_url" \in DOMAIN obj0
     THEN [err |-> "none", url |-> obj0["owner_url"],
           obj |-> Pop(Pop(Pop(obj0, "owner_url"), "owner"), "owner_type")]
     ELSE IF "owner" \in DOMAIN obj0 /\ "owner_type" \in DOMAIN obj0
     THEN LET obj_owner_type == obj0["owner_type"]
              obj_owner == obj0["owner"]
              obj1 == Pop(Pop(obj0, "owner_type"), "owner")
              obj_owner_url == None
          IN IF obj_owner_type = OBJ_TYPE_ORGANIZATION
             THEN [err |-> "none",
                   url |-> Sep \o Str(self_obj_def[OBJ_TYPE_ORGANIZATION].url_name) \o Sep
                           \o obj_owner \o Sep,
                   obj |-> obj1]
             ELSE IF obj_owner_url = Str(OBJ_TYPE_USER)
             THEN [err |-> "KeyError", url |-> None, obj |-> obj1]
             ELSE [err |-> "InvalidOwnerError", url |-> None, obj |-> obj1]
     ELSE IF has_source /\ "source_url" \in DOMAIN obj0 /\ Truthy(obj0["source_url"])
     THEN [err |-> "none",
           url |-> Prefix(obj0["source_url"], find_nth(obj0["source_url"], 3) + 1),
           obj |-> obj0]
     ELSE IF has_collection /\ "collection_url" \in DOMAIN obj0
             /\ Truthy(obj0["collection_url"])
     THEN [err |-> "none",
           url |-> Prefix(obj0["collection_url"], find_nth(obj0["collection_url"], 3) + 1),
           obj |-> obj0]
     ELSE [err |-> "InvalidOwnerError", url |-> None, obj |-> obj0]

\* The repository address of process_object, from the owner address and
\* the fields the owner resolution left.
ResolveRepo(obj_type, obj_owner_url, obj1) ==
  LET def == self_obj_def[obj_type]
      has_source == def.has_source
      has_collection == (~def.has_source) /\ def.has_collection
  IN IF has_source
     THEN IF "source_url" \in DOMAIN obj1
          THEN [err |-> "none", url |-> obj1["source_url"],
                obj |-> Pop(Pop(obj1, "source_url"), "source")]
          ELSE IF "source" \in DOMAIN obj1
          THEN [err |-> "none",
                url |-> obj_owner_url \o <<"sources", "/">> \o obj1["source"] \o Sep,
                obj |-> Pop(obj1, "source")]
          ELSE [err |-> "InvalidRepositoryError", url |-> None, obj |-> obj1]
     ELSE IF has_collection
     THEN IF "collection_url" \in DOMAIN obj1
          THEN [err |-> "none", url |-> obj1["collection_url"],
                obj |-> Pop(Pop(obj1, "collection_url"), "collection")]
          ELSE IF "collection" \in DOMAIN obj1
          THEN [err |-> "none",
                url |-> obj_owner_url \o <<"collections", "/">> \o obj1["collection"] \o Sep,
                obj |-> Pop(obj1, "collection")]
          ELSE [err |-> "InvalidRepositoryError", url |-> None, obj |-> obj1]
     ELSE [err |-> "none", url |-> None, obj |-> obj1]

\* The addresses when the versions segment is kept in the object address.
ObjectUrls_VersionsNamed(obj_type, obj_id, obj_owner_url, obj_repo_url) ==
  LET def == self_obj_def[obj_type]
      has_source == def.has_source
      has_collection == (~def.has_source) /\ def.has_collection
      new_obj_url == IF has_source \/ has_collection THEN obj_repo_url \o Str(def.url_name) \o Sep
                     ELSE IF def.has_owner THEN obj_owner_url \o Str(def.url_name) \o Sep
                     ELSE Sep \o Str(def.url_name) \o Sep
  IN [new_obj_url |-> new_obj_url,
      obj_url |-> IF (has_source \/ has_collection) /\ obj_id = << >> THEN new_obj_url
                  ELSE new_obj_url \o obj_id \o Sep]

\* The addresses when the id is appended whether the record has one or not.
ObjectUrls_IdAlwaysAppended(obj_type, obj_id, obj_owner_url, obj_repo_url) ==
  LET def == self_obj_def[obj_type]
      has_source == def.has_source
      has_collection == (~def.has_source) /\ def.has_collection
      new_obj_url == IF has_source \/ has_collection THEN obj_repo_url \o Str(def.url_name) \o Sep
                     ELSE IF def.has_owner THEN obj_owner_url \o Str(def.url_name) \o Sep
                     ELSE Sep \o Str(def.url_name) \o Sep
  IN [new_obj_url |-> new_obj_url,
      obj_url |-> IF def.omit_resource_name_on_get THEN obj_repo_url \o obj_id \o Sep
                  ELSE new_obj_url \o obj_id \o Sep]

\* The creation address (new_obj_url) and the object address (obj_url).
ObjectUrls(obj_type, obj_id, obj_owner_url, obj_repo_url) ==
  LET def == self_obj_def[obj_type]
      has_source == def.has_source
      has_collection == (~def.has_source) /\ def.has_collection
  IN IF has_source \/ has_collection
     THEN IF def.omit_resource_name_on_get
          THEN [new_obj_url |-> obj_repo_url \o Str(def.url_name) \o Sep,
                obj_url |-> obj_repo_url \o obj_id \o Sep]
          ELSE IF obj_id # << >>
          THEN [new_obj_url |-> obj_repo_url \o Str(def.url_name) \o Sep,
                obj_url |-> obj_repo_url \o Str(def.url_name) \o Sep \o obj_id \o Sep]
          ELSE [new_obj_url |-> obj_repo_url \o Str(def.url_name) \o Sep,
                obj_url |-> obj_repo_url \o Str(def.url_name) \o Sep]
     ELSE IF def.has_owner
     THEN [new_obj_url |-> obj_owner_url \o Str(def.url_name) \o Sep,
           obj_url |-> obj_owner_url \o Str(def.url_name) \o Sep \o obj_id \o Sep]
     ELSE [new_obj_url |-> Sep \o Str(def.url_name) \o Sep,
           obj_url |-> Sep \o Str(def.url_name) \o Sep \o obj_id \o Sep]

\* The value of a resolution that raised.
Raised(e) ==
  [err |-> e, obj_id |-> << >>, obj_owner_url |-> None, obj_repo_url |-> None,
   obj_url |-> << >>, new_obj_url |-> << >>, query_params |-> << >>,
   obj |-> << >>, obj_not_allowed |-> << >>]

\* process_object without the check of the object definition.
Resolve_NoDefinitionCheck(obj_type, obj) ==
  LET def == self_obj_def[obj_type]
      obj_id == IF def.id_field # {} /\ "id" \in DOMAIN obj THEN obj["id"] ELSE << >>
      owner == ResolveOwner(obj_type, obj)
      repo == ResolveRepo(obj_type, owner.url, owner.obj)
      urls == ObjectUrls(obj_type, obj_id, owner.url, repo.url)
      hasCascade == obj_type = OBJ_TYPE_REFERENCE /\ "__cascade" \in DOMAIN repo.obj
      query_params == IF hasCascade THEN [k \in {"cascade"} |-> repo.obj["__cascade"]]
                      ELSE << >>
      obj2 == IF hasCascade THEN Pop(repo.obj, "__cascade") ELSE repo.obj
      allowed == (DOMAIN obj2) \cap def.allowed_fields
  IN IF owner.err # "none" THEN Raised(owner.err)
     ELSE IF repo.err # "none" THEN Raised(repo.err)
     ELSE [err |-> "none", obj_id |-> obj_id, obj_owner_url |-> owner.url,
           obj_repo_url |-> repo.url, obj_url |-> urls.obj_url,
           new_obj_url |-> urls.new_obj_url, query_params |-> query_params,
           obj |-> [k \in allowed |-> obj2[k]],
           obj_not_allowed |-> [k \in (DOMAIN obj2) \ allowed |-> obj2[k]]]

\* process_object up to its first network call.
Resolve(obj_type, obj) ==
  LET def == self_obj_def[obj_type]
      obj_id == IF def.id_field # {} /\ "id" \in DOMAIN obj THEN obj["id"] ELSE << >>
      owner == ResolveOwner(obj_type, obj)
      repo == ResolveRepo(obj_type, owner.url, owner.obj)
      urls == ObjectUrls(obj_type, obj_id, owner.url, repo.url)
      hasCascade == obj_type = OBJ_TYPE_REFERENCE /\ "__cascade" \in DOMAIN repo.obj
      query_params == IF hasCascade THEN [k \in {"cascade"} |-> repo.obj["__cascade"]]
                      ELSE << >>
      obj2 == IF hasCascade THEN Pop(repo.obj, "__cascade") ELSE repo.obj
      allowed == (DOMAIN obj2) \cap def.allowed_fields
  IN IF def.has_source /\ def.has_collection THEN Raised("InvalidObjectDefinition")
     ELSE IF owner.err # "none" THEN Raised(owner.err)
     ELSE IF repo.err # "none" THEN Raised(repo.err)
     ELSE [err |-> "none", obj_id |-> obj_id, obj_owner_url |-> owner.url,
           obj_repo_url |-> repo.url, obj_url |-> urls.obj_url,
           new_obj_url |-> urls.new_obj_url, query_params |-> query_params,
           obj |-> [k \in allowed |-> obj2[k]],
           obj_not_allowed |-> [k \in (DOMAIN obj2) \ allowed |-> obj2[k]]]

\* ----------------------------------------------------- OclImportResults
\* A dictionary with key k set to v.
Put(f, k, v) == [x \in (DOMAIN f) \cup {k} |-> IF x = k THEN v ELSE f[x]]

\* The two kinds of value the second level of _results holds: add() stores
\* a dictionary status code -> list, add_skip() stores a list.
Dict(d) == [kind |-> "dict", d |-> d, items |-> << >>]
List(items) == [kind |-> "list", d |-> << >>, items |-> items]

\* OclImportResults(total_lines).
NewResults(total_lines) ==
  [results |-> << >>, count |-> 0, num_skipped |-> 0, total_lines |-> total_lines]

\* The first dimension of _results an outcome is stored under.
LoggingRoot(obj_type, obj_repo_url, obj_owner_url) ==
  IF obj_type \in {OBJ_TYPE_CONCEPT, OBJ_TYPE_MAPPING, OBJ_TYPE_REFERENCE} THEN obj_repo_url
  ELSE IF obj_type \in {OBJ_TYPE_SOURCE, OBJ_TYPE_COLLECTION} THEN obj_owner_url
  ELSE IF obj_type = OBJ_TYPE_ORGANIZATION THEN ORGS_RESULTS_ROOT
  ELSE IF obj_type = OBJ_TYPE_USER THEN USERS_RESULTS_ROOT
  ELSE << >>

\* OclImportResults.add.
add(ir, obj_url, action_type, obj_type, obj_repo_url, http_method, obj_owner_url, status_code) ==
  LET logging_root == LoggingRoot(obj_type, obj_repo_url, obj_owner_url)
      r0 == ir.results
      root0 == IF logging_root \in DOMAIN r0 THEN r0[logging_root] ELSE << >>
      act0 == IF action_type \in DOMAIN root0 THEN root0[action_type].d ELSE << >>
      lst0 == IF status_code \in DOMAIN act0 THEN act0[status_code] ELSE << >>
      lst1 == Append(lst0, <<http_method, obj_url>>)
  IN [ir EXCEPT !.results = Put(r0, logging_root,
                                Put(root0, action_type, Dict(Put(act0, status_code, lst1)))),
                !.count = ir.count + 1]

\* OclImportResults.add_skip.  raised names the exception it ends with.
add_skip(ir, obj_type, text) ==
  LET r0 == ir.results
      r1 == IF SKIP_KEY \notin DOMAIN r0 THEN Put(r0, SKIP_KEY, << >>) ELSE r0
      key == IF obj_type = "" THEN NO_OBJECT_TYPE_KEY ELSE obj_type
      r2 == IF key \notin DOMAIN r1[SKIP_KEY]
            THEN Put(r1, SKIP_KEY, Put(r1[SKIP_KEY], key, List(<< >>)))
            ELSE r1
      bucket == r2[SKIP_KEY][key]
  IN IF bucket.kind = "list"
     THEN \* a list is indexed by the string SKIP_KEY
          [ir |-> [ir EXCEPT !.results = r2], raised |-> "TypeError"]
     ELSE LET d1 == IF SKIP_KEY \notin DOMAIN bucket.d THEN Put(bucket.d, SKIP_KEY, << >>)
                    ELSE bucket.d
              d2 == Put(d1, SKIP_KEY, Append(d1[SKIP_KEY], text))
          IN [ir |-> [ir EXCEPT !.results = Put(r2, SKIP_KEY, Put(r2[SKIP_KEY], key, Dict(d2))),
                                !.num_skipped = ir.num_skipped + 1,
                                !.count = ir.count + 1],
              raised |-> "none"]

\* has() that does not look at the status codes.
has_AnyStatus(ir, root_key, limit_to_success_codes) == root_key \in DOMAIN ir.results

\* OclImportResults.has.
has(ir, root_key, limit_to_success_codes) ==
  IF root_key \in DOMAIN ir.results /\ ~limit_to_success_codes THEN TRUE
  ELSE IF root_key \in DOMAIN ir.results /\ limit_to_success_codes
  THEN \E action_type \in DOMAIN ir.results[root_key] :
         LET v == ir.results[root_key][action_type]
         IN v.kind = "dict" /\ \E status_code \in DOMAIN v.d :
                                 status_code >= 200 /\ status_code < 300
  ELSE FALSE

\* The sum of the values of a dictionary of numbers.
RECURSIVE SumValues(_)
SumValues(f) ==
  IF DOMAIN f = {} THEN 0
  ELSE LET k == CHOOSE x \in DOMAIN f : TRUE
       IN f[k] + SumValues([x \in (DOMAIN f) \ {k} |-> f[x]])

\* Whether get_detailed_summary counts a status code.
Counted(status_code, limit_to_success_codes) ==
  ~(limit_to_success_codes /\ (status_code < 200 \/ status_code >= 300))

\* total_count of get_detailed_summary: the lists it measures, over the
\* given first-level keys.
TotalCount(ir, keys, limit_to_success_codes) ==
  SumValues([k \in keys |->
    SumValues([a \in DOMAIN ir.results[k] |->
      LET v == ir.results[k][a]
      IN IF v.kind = "list" THEN 0
         ELSE SumValues([c \in DOMAIN v.d |->
                IF Counted(c, limit_to_success_codes) THEN Len(v.d[c]) ELSE 0])])])

\* The orders in which a for loop may meet the keys of a dictionary.
KeyOrders(keys) ==
  {o \in [1..Cardinality(keys) -> keys] :
     \A i \in DOMAIN o : \A j \in DOMAIN o : i # j => o[i] # o[j]}

\* One turn of the outer loop of get_detailed_summary:
\* results_summary[action_type][status_code] = status_code_count for what
\* is stored under first-level key k.
SummaryStep(summary, ir, k, limit_to_success_codes) ==
  [a \in (DOMAIN summary) \cup (DOMAIN ir.results[k]) |->
     LET old == IF a \in DOMAIN summary THEN summary[a] ELSE << >>
         v == IF a \in DOMAIN ir.results[k] THEN ir.results[k][a] ELSE List(<< >>)
         codes == IF v.kind = "dict"
                  THEN {c \in DOMAIN v.d : Counted(c, limit_to_success_codes)}
                  ELSE {}
     IN [c \in (DOMAIN old) \cup codes |-> IF c \in codes THEN Len(v.d[c]) ELSE old[c]]]

\* results_summary of get_detailed_summary once its loops are over, the keys
\* met in the given order.
RECURSIVE results_summary(_, _, _)
results_summary(ir, order, limit_to_success_codes) ==
  IF order = << >> THEN << >>
  ELSE SummaryStep(results_summary(ir, SubSeq(order, 1, Len(order) - 1), limit_to_success_codes),
                   ir, order[Len(order)], limit_to_success_codes)

\* What the output reports for one action type and status code, and the
\* action_type_count in front of them.
StatusCodeCount(summary, action_type, status_code) ==
  IF action_type \in DOMAIN summary /\ status_code \in DOMAIN summary[action_type]
  THEN summary[action_type][status_code] ELSE 0
ActionTypeCount(summary, action_type) ==
  IF action_type \in DOMAIN summary THEN SumValues(summary[action_type]) ELSE 0

\* What the last line of get_detailed_summary() (no root_key) reports:
\* 'Processed <processed> and skipped <skipped> of <total> total'.
GrandTotals(ir) ==
  [processed |-> TotalCount(ir, DOMAIN ir.results, FALSE),
   skipped |-> ir.num_skipped,
   total |-> ir.total_lines]

\* ------------------------------------------------------------ the inputs
Org1Url == <<"/", "orgs", "/", "Org1", "/">>
Source1Url == Org1Url \o <<"sources", "/", "S1", "/">>
Collection1Url == Org1Url \o <<"collections", "/", "Col1", "/">>

\* The lines an import file is made of (json.loads of the line).
LineNoType == [id |-> <<"X1">>, name |-> <<"x">>]
LineUnknownType == [type |-> "Widget", id |-> <<"W1">>]
LineOrganization == [type |-> OBJ_TYPE_ORGANIZATION, id |-> <<"Org1">>, name |-> <<"x">>]
LineSource ==
  [type |-> OBJ_TYPE_SOURCE, id |-> <<"S1">>, owner |-> <<"Org1">>,
   owner_type |-> OBJ_TYPE_ORGANIZATION, name |-> <<"x">>]
LineConcept ==
  [type |-> OBJ_TYPE_CONCEPT, id |-> <<"C1">>, source |-> <<"S1">>, owner |-> <<"Org1">>,
   owner_type |-> OBJ_TYPE_ORGANIZATION, concept_class |-> <<"X">>, datatype |-> <<"None">>,
   extras |-> <<"foo">>]
LineNoOwner == [type |-> OBJ_TYPE_CONCEPT, id |-> <<"C2">>, source |-> <<"S1">>]
LineNoRepository ==
  [type |-> OBJ_TYPE_CONCEPT, id |-> <<"C3">>, owner |-> <<"Org1">>,
   owner_type |-> OBJ_TYPE_ORGANIZATION]
LineReference ==
  ("type" :> OBJ_TYPE_REFERENCE) @@ ("collection_url" :> Collection1Url)
  @@ ("data" :> <<"expr">>) @@ ("__cascade" :> <<"sourcemappings">>)

LineMapping ==
  ("type" :> OBJ_TYPE_MAPPING) @@ ("source_url" :> Source1Url) @@ ("owner" :> <<"Org1">>)
  @@ ("map_type" :> <<"SAME-AS">>) @@ ("comment" :> <<"x">>) @@ ("__cascade" :> <<"none">>)

LineSourceVersion ==
  [type |-> OBJ_TYPE_SOURCE_VERSION, id |-> <<"v1">>, source_url |-> Source1Url,
   description |-> <<"x">>]

LineEmptyOwner ==
  [type |-> OBJ_TYPE_CONCEPT, id |-> <<"C4">>, owner_url |-> << >>, source_url |-> Source1Url]

Lines ==
  {LineNoType, LineUnknownType, LineOrganization, LineSource, LineConcept,
   LineNoOwner, LineNoRepository, LineReference, LineMapping, LineEmptyOwner}

\* What the server holds when the run starts.
ServerInits == {{}, {Org1Url, Source1Url, Collection1Url}}

\* The values of the limit argument.
Limits == {0, 1}

\* ------------------------------------------------------------ the values
\* No line in hand.
Idle ==
  [obj_type |-> "", obj_id |-> << >>, obj_owner_url |-> None, obj_repo_url |-> None,
   obj_url |-> << >>, new_obj_url |-> << >>, query_params |-> << >>,
   obj |-> << >>, obj_not_allowed |-> << >>, obj_already_exists |-> FALSE]

\* One entry of the trace.
Event(line, kind, role, url, method, status, action) ==
  [line |-> line, kind |-> kind, role |-> role, url |-> url, method |-> method,
   status |-> status, action |-> action, data |-> << >>]

\* The importer as constructed, whatever obj_def holds.
Constructed ==
  /\ test_mode \in BOOLEAN
  /\ do_update_if_exists \in BOOLEAN
  /\ limit \in Limits
  /\ num_lines \in 1..MaxLines
  /\ count = 0
  /\ pc = "loop"
  /\ error = "none"
  /\ cur = Idle
  /\ cache_obj_exists = << >>
  /\ import_results = NewResults(num_lines)
  /\ server \in ServerInits
  /\ faults = 0
  /\ file = << >>
  /\ trace = << >>

Init == self_obj_def = obj_def /\ Constructed

\* ----------------------------------------------------------- the network
\* What a request gets: a response with a status, or no response at all
\* (requests raises ConnectionError).
Response(status) == [failed |-> FALSE, status |-> status]
NoResponse == [failed |-> TRUE, status |-> 0]

\* The faults the network may still produce: an unexpected status, no response.
HeadFaults == IF faults < MaxFaults THEN {Response(500), NoResponse} ELSE {}
SendFaults == IF faults < MaxFaults THEN {NoResponse} ELSE {}

\* The replies to requests.head on an address.
HeadReplies(obj_url) ==
  {Response(IF obj_url \in server THEN StatusOk ELSE StatusNotFound)} \cup HeadFaults

\* The replies to requests.post and requests.put: created, or refused.
SendReplies == {Response(201), Response(400)} \cup SendFaults

IsFault(reply) == reply.failed \/ reply.status \notin {StatusOk, StatusNotFound, 201, 400}

\* ----------------------------------------------------- does_object_exist
\* does_object_exist that does not remember a found address.
does_object_exist_Forgetful(cache, obj_url, reply) ==
  IF obj_url \in DOMAIN cache /\ cache[obj_url]
  THEN [result |-> "True", head |-> FALSE, cache |-> cache]
  ELSE IF reply.failed
  THEN [result |-> "ConnectionError", head |-> TRUE, cache |-> cache]
  ELSE IF reply.status = StatusOk
  THEN [result |-> "True", head |-> TRUE, cache |-> cache]
  ELSE IF reply.status = StatusNotFound
  THEN [result |-> "False", head |-> TRUE, cache |-> cache]
  ELSE [result |-> "UnexpectedStatusCodeError", head |-> TRUE, cache |-> cache]

\* does_object_exist that stores not-found answers too and answers from the
\* cache whatever it holds.
does_object_exist_CachesNotFound(cache, obj_url, reply) ==
  IF obj_url \in DOMAIN cache
  THEN [result |-> IF cache[obj_url] THEN "True" ELSE "False", head |-> FALSE, cache |-> cache]
  ELSE IF reply.failed
  THEN [result |-> "ConnectionError", head |-> TRUE, cache |-> cache]
  ELSE IF reply.status = StatusOk
  THEN [result |-> "True", head |-> TRUE, cache |-> Put(cache, obj_url, TRUE)]
  ELSE IF reply.status = StatusNotFound
  THEN [result |-> "False", head |-> TRUE, cache |-> Put(cache, obj_url, FALSE)]
  ELSE [result |-> "UnexpectedStatusCodeError", head |-> TRUE, cache |-> cache]

\* does_object_exist that takes every status other than 200 for not found.
does_object_exist_OtherStatusIsFalse(cache, obj_url, reply) ==
  IF obj_url \in DOMAIN cache /\ cache[obj_url]
  THEN [result |-> "True", head |-> FALSE, cache |-> cache]
  ELSE IF reply.failed
  THEN [result |-> "ConnectionError", head |-> TRUE, cache |-> cache]
  ELSE IF reply.status = StatusOk
  THEN [result |-> "True", head |-> TRUE, cache |-> Put(cache, obj_url, TRUE)]
  ELSE [result |-> "False", head |-> TRUE, cache |-> cache]

\* does_object_exist(obj_url) with use_cache=True, given the reply a HEAD
\* request would get.  head tells whether the request was issued.
does_object_exist(cache, obj_url, reply) ==
  IF obj_url \in DOMAIN cache /\ cache[obj_url]
  THEN [result |-> "True", head |-> FALSE, cache |-> cache]
  ELSE IF reply.failed
  THEN [result |-> "ConnectionError", head |-> TRUE, cache |-> cache]
  ELSE IF reply.status = StatusOk
  THEN [result |-> "True", head |-> TRUE, cache |-> Put(cache, obj_url, TRUE)]
  ELSE IF reply.status = StatusNotFound
  THEN [result |-> "False", head |-> TRUE, cache |-> cache]
  ELSE [result |-> "UnexpectedStatusCodeError", head |-> TRUE, cache |-> cache]

\* The replies a call of does_object_exist may meet: none matters when the
\* cache answers.
RepliesTo(obj_url) ==
  IF obj_url \in DOMAIN cache_obj_exists /\ cache_obj_exists[obj_url]
  THEN {NoResponse}
  ELSE HeadReplies(obj_url)

\* The trace entry of a call of does_object_exist.
ProbeEvent(role, obj_url, reply, r) ==
  Event(count, IF r.head THEN "HEAD" ELSE "CACHE", role, obj_url, "HEAD",
        IF r.head THEN reply.status ELSE 0, r.result)

\* The trace entry of a record that is given up ('SKIPPING' in the log).
SkipEvent(line, why, obj_url) == Event(line, "SKIP", why, obj_url, "", 0, "")

\* ------------------------------------------------------------- process()
\* The head of the for loop: a line is left and the limit is not reached.
CanRead == pc = "loop" /\ count < num_lines /\ ~(limit > 0 /\ count >= limit)

\* A line without 'type'.
ReadUntyped(line) ==
  /\ CanRead
  /\ "type" \notin DOMAIN line
  /\ count' = count + 1
  /\ LET s == add_skip(import_results, "", line)
     IN /\ import_results' = s.ir
        /\ pc' = IF s.raised = "none" THEN "loop" ELSE "crashed"
        /\ error' = s.raised
  /\ file' = Append(file, line)
  /\ trace' = Append(trace, SkipEvent(count + 1, "type", << >>))
  /\ UNCHANGED <<config, cur, cache_obj_exists, server, faults>>

\* A line whose 'type' is no key of obj_def.
ReadUnrecognized(line) ==
  /\ CanRead
  /\ "type" \in DOMAIN line
  /\ line["type"] \notin DOMAIN self_obj_def
  /\ count' = count + 1
  /\ LET s == add_skip(import_results, line["type"], line)
     IN /\ import_results' = s.ir
        /\ pc' = IF s.raised = "none" THEN "loop" ELSE "crashed"
        /\ error' = s.raised
  /\ file' = Append(file, line)
  /\ trace' = Append(trace, SkipEvent(count + 1, "type", << >>))
  /\ UNCHANGED <<config, cur, cache_obj_exists, server, faults>>

\* A line of a known type: process_object up to its first network call.
ReadObject(line) ==
  /\ CanRead
  /\ "type" \in DOMAIN line
  /\ line["type"] \in DOMAIN self_obj_def
  /\ count' = count + 1
  /\ LET r == Resolve(line["type"], Pop(line, "type"))
     IN IF r.err # "none"
        THEN /\ pc' = "crashed"
             /\ error' = r.err
             /\ cur' = cur
             /\ trace' = Append(trace, Event(count + 1, "RAISE", "", << >>, "", 0, r.err))
        ELSE /\ pc' = "owner"
             /\ error' = error
             /\ cur' = [obj_type |-> line["type"], obj_id |-> r.obj_id,
                        obj_owner_url |-> r.obj_owner_url, obj_repo_url |-> r.obj_repo_url,
                        obj_url |-> r.obj_url, new_obj_url |-> r.new_obj_url,
                        query_params |-> r.query_params, obj |-> r.obj,
                        obj_not_allowed |-> r.obj_not_allowed, obj_already_exists |-> FALSE]
             /\ trace' = trace
  /\ file' = Append(file, line)
  /\ UNCHANGED <<config, cache_obj_exists, import_results, server, faults>>

\* The break of the for loop.
LimitReached ==
  /\ pc = "loop" /\ count < num_lines /\ limit > 0 /\ count >= limit
  /\ pc' = "done"
  /\ UNCHANGED <<config, count, error, cur, cache_obj_exists, import_results, server,
                 faults, file, trace>>

\* The file is exhausted: process() returns count.
EndOfFile ==
  /\ pc = "loop" /\ count = num_lines
  /\ pc' = "done"
  /\ UNCHANGED <<config, count, error, cur, cache_obj_exists, import_results, server,
                 faults, file, trace>>

\* ------------------------------------------------------- process_object
\* process_object returns to the loop of process().
Return(events) ==
  /\ pc' = "loop"
  /\ cur' = Idle
  /\ error' = error
  /\ trace' = trace \o events

\* An exception leaves process_object and process().
Crash(e, events) ==
  /\ pc' = "crashed"
  /\ cur' = cur
  /\ error' = e
  /\ trace' = trace \o events

\* The existence check without the return after a not-found answer.
ExistenceCheck_NoReturn(obj_url, what, next) ==
  \E reply \in RepliesTo(obj_url) :
    LET r == does_object_exist(cache_obj_exists, obj_url, reply)
        probe == ProbeEvent(what, obj_url, reply, r)
    IN /\ cache_obj_exists' = r.cache
       /\ faults' = faults + (IF r.head /\ IsFault(reply) THEN 1 ELSE 0)
       /\ IF r.result \in {"True", "False"}
          THEN /\ pc' = next
               /\ cur' = cur
               /\ error' = error
               /\ trace' = Append(trace, probe)
          ELSE IF r.result = "UnexpectedStatusCodeError"
          THEN Return(<<probe, SkipEvent(count, "unexpected", obj_url)>>)
          ELSE Crash(r.result, <<probe>>)

\* The check that the owner (what = "owner") or the repository
\* (what = "repo") exists, and where process_object goes from there.
ExistenceCheck(obj_url, what, next) ==
  \E reply \in RepliesTo(obj_url) :
    LET r == does_object_exist(cache_obj_exists, obj_url, reply)
        probe == ProbeEvent(what, obj_url, reply, r)
    IN /\ cache_obj_exists' = r.cache
       /\ faults' = faults + (IF r.head /\ IsFault(reply) THEN 1 ELSE 0)
       /\ IF r.result = "True" \/ (r.result = "False" /\ test_mode)
          THEN /\ pc' = next
               /\ cur' = cur
               /\ error' = error
               /\ trace' = Append(trace, probe)
          ELSE IF r.result = "False"
          THEN Return(<<probe, SkipEvent(count, what, obj_url)>>)
          ELSE IF r.result = "UnexpectedStatusCodeError"
          THEN Return(<<probe, SkipEvent(count, "unexpected", obj_url)>>)
          ELSE Crash(r.result, <<probe>>)

\* 'Check if owner exists'.
CheckOwner ==
  /\ pc = "owner"
  /\ IF self_obj_def[cur.obj_type].has_owner /\ Truthy(cur.obj_owner_url)
     THEN ExistenceCheck(cur.obj_owner_url, "owner", "repo")
     ELSE /\ pc' = "repo"
          /\ UNCHANGED <<cur, error, trace, cache_obj_exists, faults>>
  /\ UNCHANGED <<config, count, import_results, server, file>>

\* 'Check if repository exists'.
CheckRepository ==
  /\ pc = "repo"
  /\ IF (self_obj_def[cur.obj_type].has_source \/ self_obj_def[cur.obj_type].has_collection)
        /\ Truthy(cur.obj_repo_url)
     THEN ExistenceCheck(cur.obj_repo_url, "repo", "object")
     ELSE /\ pc' = "object"
          /\ UNCHANGED <<cur, error, trace, cache_obj_exists, faults>>
  /\ UNCHANGED <<config, count, import_results, server, file>>

\* Where process_object goes once obj_already_exists is known.
AfterObjectCheck(exists, events) ==
  IF exists /\ ~do_update_if_exists /\ ~test_mode
  THEN Return(events \o <<SkipEvent(count, "exists", cur.obj_url)>>)
  ELSE /\ pc' = "send"
       /\ cur' = [cur EXCEPT !.obj_already_exists = exists]
       /\ error' = error
       /\ trace' = trace \o events

\* 'Check if object already exists'.
CheckObject ==
  /\ pc = "object"
  /\ IF cur.obj_type \in {OBJ_TYPE_REFERENCE, OBJ_TYPE_MAPPING}
     THEN \* does_reference_exist and does_mapping_exist return False
          /\ AfterObjectCheck(FALSE, <<Event(count, "STUB", "object", cur.obj_url, "", 0,
                                              "False")>>)
          /\ UNCHANGED <<cache_obj_exists, faults>>
     ELSE \E reply \in RepliesTo(cur.obj_url) :
            LET r == does_object_exist(cache_obj_exists, cur.obj_url, reply)
                probe == ProbeEvent("object", cur.obj_url, reply, r)
            IN /\ cache_obj_exists' = r.cache
               /\ faults' = faults + (IF r.head /\ IsFault(reply) THEN 1 ELSE 0)
               /\ IF r.result \in {"True", "False"}
                  THEN AfterObjectCheck(r.result = "True", <<probe>>)
                  ELSE IF r.result = "UnexpectedStatusCodeError"
                  THEN Return(<<probe, SkipEvent(count, "unexpected", cur.obj_url)>>)
                  ELSE Crash(r.result, <<probe>>)
  /\ UNCHANGED <<config, count, import_results, server, file>>

\* ----------------------------------------------------- update_or_create
\* urllib.urlencode(query_params), after the '?'.
UrlEncode(query_params) ==
  IF "cascade" \in DOMAIN query_params
  THEN <<"?", "cascade", "=">> \o query_params["cascade"]
  ELSE << >>

\* update_or_create that creates at the object address.
Request_CreateAtObjectUrl(c) ==
  IF c.obj_already_exists
  THEN [method |-> self_obj_def[c.obj_type].update_method,
        url |-> c.obj_url \o UrlEncode(c.query_params),
        action_type |-> ACTION_TYPE_UPDATE]
  ELSE [method |-> self_obj_def[c.obj_type].create_method,
        url |-> c.obj_url \o UrlEncode(c.query_params),
        action_type |-> ACTION_TYPE_NEW]

\* The method, address and action type update_or_create settles on.
Request(c) ==
  IF c.obj_already_exists
  THEN [method |-> self_obj_def[c.obj_type].update_method,
        url |-> c.obj_url \o UrlEncode(c.query_params),
        action_type |-> ACTION_TYPE_UPDATE]
  ELSE [method |-> self_obj_def[c.obj_type].create_method,
        url |-> c.new_obj_url \o UrlEncode(c.query_params),
        action_type |-> ACTION_TYPE_NEW]

\* update_or_create without the 'Skip updates for now' return.
Transmits_Updates(c) == ~test_mode

\* update_or_create without the test_mode return.
Transmits_InTestMode(c) == ~c.obj_already_exists

\* The body of the request when the removed fields are sent too.
Payload_Unfiltered(c) == c.obj @@ c.obj_not_allowed

\* The body of the request: json.dumps(obj).
Payload(c) == c.obj

\* Whether update_or_create gets as far as requests.post/put.
Transmits(c) == ~test_mode /\ ~c.obj_already_exists

\* raise_for_status() raises HTTPError.
IsErrorStatus(status) == status >= 400 /\ status < 600

\* update_or_create, and the except clause around it in process_object.
UpdateOrCreate ==
  /\ pc = "send"
  /\ LET req == Request(cur)
     IN IF ~Transmits(cur)
        THEN /\ Return(<<Event(count, "NOSEND", "send", req.url, req.method, 0, req.action_type)>>)
             /\ UNCHANGED <<import_results, server, faults>>
        ELSE IF req.method \notin {"POST", "PUT"}
        THEN /\ Crash("UnboundLocalError", << >>)
             /\ UNCHANGED <<import_results, server, faults>>
        ELSE \E reply \in SendReplies :
               LET sent == [Event(count, "SEND", "send", req.url, req.method, reply.status,
                                  req.action_type) EXCEPT !.data = Payload(cur)]
               IN IF reply.failed
                  THEN /\ Crash("ConnectionError", <<sent>>)
                       /\ faults' = faults + 1
                       /\ UNCHANGED <<import_results, server>>
                  ELSE /\ import_results' =
                            add(import_results, cur.obj_url, req.action_type, cur.obj_type,
                                cur.obj_repo_url, req.method, cur.obj_owner_url, reply.status)
                       /\ server' = IF reply.status \in 200..299 /\ cur.obj_url # cur.new_obj_url
                                    THEN server \cup {cur.obj_url} ELSE server
                       /\ faults' = faults
                       /\ Return(<<sent,
                                   Event(count, "ADD", "send", cur.obj_url, req.method, reply.status,
                                         req.action_type)>>
                                 \o (IF IsErrorStatus(reply.status)
                                     THEN <<Event(count, "HTTPError", "send", req.url, req.method,
                                                  reply.status, req.action_type)>>
                                     ELSE << >>))
  /\ UNCHANGED <<config, count, cache_obj_exists, file>>

\* ---------------------------------------------------- the specification
Next ==
  \/ \E line \in Lines : ReadUntyped(line)
  \/ \E line \in Lines : ReadUnrecognized(line)
  \/ \E line \in Lines : ReadObject(line)
  \/ LimitReached
  \/ EndOfFile
  \/ CheckOwner
  \/ CheckRepository
  \/ CheckObject
  \/ UpdateOrCreate

Spec == Init /\ [][Next]_vars

\* ------------------------------------------- an invalid object definition
\* obj_def with has_source and has_collection both set for one type.
InvalidDefinitions ==
  {[obj_def EXCEPT ![OBJ_TYPE_REFERENCE].has_source = TRUE],
   [obj_def EXCEPT ![OBJ_TYPE_CONCEPT].has_collection = TRUE]}

InitInvalidDefinition == self_obj_def \in InvalidDefinitions /\ Constructed

SpecInvalidDefinition == InitInvalidDefinition /\ [][Next]_vars

\* ------------------------------------------------- resolution on its own
\* The fields a record may carry for its id, its owner and its repository.
IdFields == {<< >>, [id |-> <<"X1">>]}
OwnerFields ==
  {<< >>,
   [owner_url |-> Org1Url],
   [owner_url |-> << >>],
   [owner |-> <<"Org1">>],
   [owner |-> <<"Org1">>, owner_type |-> OBJ_TYPE_ORGANIZATION],
   [owner |-> <<"Org1">>, owner_type |-> OBJ_TYPE_USER],
   [owner |-> <<"Org1">>, owner_type |-> "Team"],
   [owner_url |-> Org1Url, owner |-> <<"Org2">>, owner_type |-> OBJ_TYPE_USER]}
RepoFields ==
  {<< >>,
   [source |-> <<"S1">>],
   [source_url |-> Source1Url],
   [source_url |-> <<"S1">>],
   [source_url |-> <<"/", "orgs", "/", "Org1">>],
   [collection |-> <<"Col1">>],
   [collection_url |-> Collection1Url],
   [collection_url |-> <<"Col1">>]}

\* The records process_object is given: every type with every choice of
\* fields, and the lines of an import file.
ResolveLines ==
  {[type |-> t] @@ i @@ o @@ r :
     t \in DOMAIN obj_def, i \in IdFields, o \in OwnerFields, r \in RepoFields}
    \cup Lines

\* An import file of one line.
InitResolve ==
  /\ Init
  /\ ~test_mode /\ ~do_update_if_exists /\ limit = 0 /\ num_lines = 1 /\ server = {}

NextResolve == \E line \in ResolveLines : ReadObject(line)

SpecResolve == InitResolve /\ [][NextResolve]_vars

\* ------------------------------------------- OclImportResults on its own
\* The status codes a server answers a POST or PUT with, around the limits
\* of the success range.
Statuses == {199, 200, 299, 300, 404}

\* The records whose outcomes are recorded: one per first-level key.
ResultLines ==
  {LineOrganization, LineSource, LineConcept, LineReference, LineSourceVersion}

InitResults ==
  /\ self_obj_def = obj_def
  /\ test_mode = FALSE
  /\ do_update_if_exists = TRUE
  /\ limit = 0
  /\ num_lines = MaxOutcomes
  /\ count = 0
  /\ pc = "loop"
  /\ error = "none"
  /\ cur = Idle
  /\ cache_obj_exists = << >>
  /\ import_results = NewResults(num_lines)
  /\ server = {}
  /\ faults = 0
  /\ file = << >>
  /\ trace = << >>

\* The end of update_or_create for one record: the server answered the POST
\* or PUT with status_code, and import_results.add() stores the outcome.
RecordOutcome(line, action_type, status_code) ==
  /\ pc = "loop" /\ count < num_lines
  /\ LET r == Resolve(line["type"], Pop(line, "type"))
         method == IF action_type = ACTION_TYPE_UPDATE
                   THEN self_obj_def[line["type"]].update_method
                   ELSE self_obj_def[line["type"]].create_method
     IN /\ r.err = "none"
        /\ import_results' = add(import_results, r.obj_url, action_type, line["type"],
                                 r.obj_repo_url, method, r.obj_owner_url, status_code)
        /\ trace' = Append(trace, Event(count + 1, "ADD", "send", r.obj_url, method,
                                        status_code, action_type))
  /\ count' = count + 1
  /\ file' = Append(file, line)
  /\ UNCHANGED <<config, pc, error, cur, cache_obj_exists, server, faults>>

NextResults ==
  \E line \in ResultLines : \E action_type \in {ACTION_TYPE_NEW, ACTION_TYPE_UPDATE} :
    \E status_code \in Statuses : RecordOutcome(line, action_type, status_code)

SpecResults == InitResults /\ [][NextResults]_vars

\* ---------------------------------------- DatimBase.increment_ocl_versions
Source2Url == Org1Url \o <<"sources", "/", "S2", "/">>

\* The repositories a synchronization exports, by key.
OCL_EXPORT_DEFS ==
  [k \in {"S1", "S2", "Col1"} |->
     [endpoint |-> CASE k = "S1" -> Source1Url [] k = "S2" -> Source2Url
                     [] OTHER -> Collection1Url]]

\* The records of the import that came before, and the answers it got.
VersionLines == {LineConcept, LineReference}
ImportStatuses == {201, 400}

\* The replies to the POST of a new version.
VersionReplies == {Response(201), Response(500)} \cup SendFaults

\* The call of increment_ocl_versions after the import: the for loop meets
\* the keys of OCL_EXPORT_DEFS in some order.
StartIncrement ==
  /\ pc = "loop"
  /\ \E order \in KeyOrders(DOMAIN OCL_EXPORT_DEFS) : cur' = [order |-> order, cnt |-> 0]
  /\ pc' = "versions"
  /\ UNCHANGED <<config, count, error, cache_obj_exists, import_results, server, faults,
                 file, trace>>

\* The endpoint of the repository the loop is at.
ExportEndpoint == OCL_EXPORT_DEFS[cur.order[cur.cnt + 1]].endpoint

\* One turn of the loop for a repository without a successful outcome.
ExportUnchanged ==
  /\ pc = "versions" /\ cur.cnt < Len(cur.order)
  /\ ~has(import_results, ExportEndpoint, TRUE)
  /\ cur' = [cur EXCEPT !.cnt = cur.cnt + 1]
  /\ UNCHANGED <<config, count, pc, error, cache_obj_exists, import_results, server, faults,
                 file, trace>>

\* The turn of the loop that goes on after a request that failed.
CreateVersion_NoRaise ==
  /\ pc = "versions" /\ cur.cnt < Len(cur.order)
  /\ has(import_results, ExportEndpoint, TRUE)
  /\ \E reply \in VersionReplies :
       /\ faults' = faults + (IF reply.failed THEN 1 ELSE 0)
       /\ pc' = pc
       /\ error' = error
       /\ cur' = [cur EXCEPT !.cnt = cur.cnt + 1]
       /\ trace' = Append(trace, Event(cur.cnt + 1, "VERSION", "version",
                                       ExportEndpoint \o <<"versions", "/">>, "POST",
                                       reply.status, ""))
  /\ UNCHANGED <<config, count, cache_obj_exists, import_results, server, file>>

\* One turn of the loop for a repository with a successful outcome: the POST
\* of a new version and raise_for_status().
CreateVersion ==
  /\ pc = "versions" /\ cur.cnt < Len(cur.order)
  /\ has(import_results, ExportEndpoint, TRUE)
  /\ \E reply \in VersionReplies :
       LET posted == Event(cur.cnt + 1, "VERSION", "version",
                           ExportEndpoint \o <<"versions", "/">>, "POST", reply.status, "")
       IN /\ faults' = faults + (IF reply.failed THEN 1 ELSE 0)
          /\ IF reply.failed THEN Crash("ConnectionError", <<posted>>)
             ELSE IF IsErrorStatus(reply.status) THEN Crash("HTTPError", <<posted>>)
             ELSE /\ pc' = pc
                  /\ error' = error
                  /\ cur' = [cur EXCEPT !.cnt = cur.cnt + 1]
                  /\ trace' = Append(trace, posted)
  /\ UNCHANGED <<config, count, cache_obj_exists, import_results, server, file>>

\* The loop is over: increment_ocl_versions returns.
FinishIncrement ==
  /\ pc = "versions" /\ cur.cnt = Len(cur.order)
  /\ pc' = "done"
  /\ UNCHANGED <<config, count, error, cur, cache_obj_exists, import_results, server,
                 faults, file, trace>>

NextVersions ==
  \/ \E line \in VersionLines : \E status_code \in ImportStatuses :
       RecordOutcome(line, ACTION_TYPE_NEW, status_code)
  \/ StartIncrement
  \/ ExportUnchanged
  \/ CreateVersion
  \/ FinishIncrement

SpecVersions == InitResults /\ [][NextVersions]_vars

\* ------------------------------------------------------ reading the trace
\* The entries of the trace of one kind, and their number.
EventsOf(kinds) == {i \in DOMAIN trace : trace[i].kind \in kinds}

\* The run ended with an exception while the line of entry i was in hand.
CrashedAt(i) == pc = "crashed" /\ trace[i].line = count

\* The number of entries of every list add() has filled.
OutcomeCount == TotalCount(import_results, (DOMAIN import_results.results) \ {SKIP_KEY}, FALSE)

\* The number of texts add_skip() has stored.
SkipEntryCount ==
  IF SKIP_KEY \notin DOMAIN import_results.results THEN 0
  ELSE SumValues([t \in DOMAIN import_results.results[SKIP_KEY] |->
         LET v == import_results.results[SKIP_KEY][t]
         IN IF v.kind = "list" THEN Len(v.items)
            ELSE SumValues([k \in DOMAIN v.d |-> Len(v.d[k])])])

\* ------------------------------------------------------------ the claims
\* C1: a line without 'type', or whose 'type' is no key of obj_def, never
\* ends the run: process() is not left by an exception while that line is
\* in hand.
C1_SkipLineNeverEndsRun ==
  \A i \in EventsOf({"SKIP"}) : trace[i].role = "type" => ~CrashedAt(i)

\* C2: a record of a known type that raises InvalidOwnerError or
\* InvalidRepositoryError is given up on its own: process() is not left by
\* that exception.
C2_MalformedRecordNeverEndsRun ==
  \A i \in EventsOf({"RAISE"}) :
    trace[i].action \in {"InvalidOwnerError", "InvalidRepositoryError"} => ~CrashedAt(i)

\* C3: every POST or PUT that was sent is followed by exactly one add() of
\* its outcome, and neither an error status nor a failure of the transport
\* ends the run.
C3_EverySendRecordedAndSurvived ==
  /\ \A i \in EventsOf({"SEND"}) :
       /\ i < Len(trace) /\ trace[i + 1].kind = "ADD" /\ trace[i + 1].line = trace[i].line
       /\ ~CrashedAt(i)
  /\ Cardinality(EventsOf({"ADD"})) = Cardinality(EventsOf({"SEND"}))
  /\ OutcomeCount = Cardinality(EventsOf({"SEND"}))

\* C4: every record that is skipped (type unknown or absent, owner or
\* repository not found, object exists and no update) adds no outcome and
\* exactly one skip entry: num_skipped and the skip bucket count the skipped
\* records, and count counts them and the outcomes.
C4_OneSkipEntryPerSkip ==
  LET skips == Cardinality({i \in EventsOf({"SKIP"}) :
                              trace[i].role \in {"type", "owner", "repo", "exists"}})
  IN /\ import_results.num_skipped = skips
     /\ SkipEntryCount = skips
     /\ import_results.count = skips + Cardinality(EventsOf({"ADD"}))

\* C5: when process() has read the whole file, the totals of
\* get_detailed_summary() satisfy processed + skipped = total_lines.
C5_TotalsAddUp ==
  (pc = "done" /\ count = num_lines) =>
    GrandTotals(import_results).processed + GrandTotals(import_results).skipped
      = GrandTotals(import_results).total

\* The calls of does_object_exist in the trace, in order.
Probes == SelectSeq(trace, LAMBDA e : e.kind \in {"HEAD", "CACHE"})

\* The entries of one line that belong to the object itself: the check that
\* it exists, and update_or_create.
ObjectLevelOps(line) ==
  {k \in DOMAIN trace : trace[k].line = line /\ trace[k].role \in {"object", "send"}}

\* The number of outcomes stored under one action type, over all roots.
ActionCount(action_type) ==
  SumValues([k \in (DOMAIN import_results.results) \ {SKIP_KEY} |->
    IF action_type \in DOMAIN import_results.results[k]
    THEN SumValues([c \in DOMAIN import_results.results[k][action_type].d |->
                      Len(import_results.results[k][action_type].d[c])])
    ELSE 0])

\* The line of the file an entry of the trace belongs to, and its addresses.
LineOf(i) == file[trace[i].line]
ResolvedOf(i) == Resolve(LineOf(i)["type"], Pop(LineOf(i), "type"))

\* C6: does_object_exist called twice in a row on an address that exists
\* returns True both times, and the second call is answered from
\* cache_obj_exists without a HEAD request.
C6_SecondProbeFromCache ==
  \A i \in 1..(Len(Probes) - 1) :
    (Probes[i].url = Probes[i + 1].url /\ Probes[i].action = "True")
      => (Probes[i + 1].action = "True" /\ Probes[i + 1].kind = "CACHE")

C6_Witness ==
  \E i \in 1..(Len(Probes) - 1) :
    /\ Probes[i].kind = "HEAD" /\ Probes[i].status = StatusOk
    /\ Probes[i + 1].url = Probes[i].url
    /\ Probes[i + 1].kind = "CACHE" /\ Probes[i + 1].action = "True"

\* C7: a not-found answer is never stored in cache_obj_exists: the next
\* call for the same address issues a real HEAD request, and an address an
\* earlier record has created is not reported missing afterwards.
C7_NotFoundNeverCached ==
  /\ \A u \in DOMAIN cache_obj_exists :
       /\ cache_obj_exists[u]
       /\ \E i \in EventsOf({"HEAD"}) : trace[i].url = u /\ trace[i].status = StatusOk
  /\ \A i \in 1..Len(Probes) : \A j \in (i + 1)..Len(Probes) :
       (/\ Probes[i].url = Probes[j].url
        /\ Probes[i].action = "False"
        /\ \A k \in (i + 1)..(j - 1) : Probes[k].url # Probes[i].url)
         => Probes[j].kind = "HEAD"
  /\ \A a \in EventsOf({"ADD"}) : \A j \in EventsOf({"HEAD", "CACHE"}) :
       (a < j /\ trace[a].url = trace[j].url /\ trace[a].status \in 200..299)
         => trace[j].action # "False"

C7_Witness ==
  \E i \in EventsOf({"HEAD"}) : \E a \in EventsOf({"ADD"}) : \E j \in EventsOf({"HEAD"}) :
    /\ i < a /\ a < j
    /\ trace[i].action = "False" /\ trace[i].status = StatusNotFound
    /\ trace[a].url = trace[i].url /\ trace[a].status \in 200..299
    /\ trace[j].url = trace[i].url /\ trace[j].role = "owner" /\ trace[j].action = "True"

\* The pairs of owner checks of two records in sequence for the same
\* address, the first of which found no owner.
MissingOwnerPairs ==
  {p \in EventsOf({"HEAD", "CACHE"}) \X EventsOf({"HEAD", "CACHE"}) :
     /\ trace[p[1]].role = "owner" /\ trace[p[2]].role = "owner"
     /\ trace[p[2]].line = trace[p[1]].line + 1
     /\ trace[p[2]].url = trace[p[1]].url
     /\ trace[p[1]].action = "False"}

\* C8 as stated: two records in sequence with the same non-existent owner
\* cause one real probe of the owner address, the second being answered
\* from the cache, and an object-level operation each.
C8_SecondOwnerProbeFromCache ==
  \A p \in MissingOwnerPairs :
    /\ trace[p[2]].kind = "CACHE"
    /\ ObjectLevelOps(trace[p[1]].line) # {}

\* C8 as amended: two records in sequence with the same non-existent owner
\* cause two real probes of the owner address, one per record, and outside
\* test mode a record whose owner was not found gets no object-level
\* operation.
C8_EachRecordProbesOwner ==
  \A p \in MissingOwnerPairs :
    /\ trace[p[1]].kind = "HEAD" /\ trace[p[2]].kind = "HEAD"
    /\ ~test_mode => ObjectLevelOps(trace[p[1]].line) = {}
    /\ (~test_mode /\ trace[p[2]].action = "False") => ObjectLevelOps(trace[p[2]].line) = {}

C8_Witness ==
  \E p \in MissingOwnerPairs :
    /\ ~test_mode
    /\ trace[p[2]].kind = "HEAD" /\ trace[p[2]].action = "False"
    /\ pc = "loop" /\ count = trace[p[2]].line

\* C9: when the object-level check reports that the object does not exist
\* (not in test mode), update_or_create sends exactly one request, with the
\* type's create_method, to new_obj_url plus the query parameters, and the
\* outcome is recorded with action type 'new'.
C9_CreateWhenAbsent ==
  /\ \A i \in DOMAIN trace :
       (trace[i].role = "object" /\ trace[i].action = "False" /\ ~test_mode)
         => \/ i = Len(trace) /\ pc = "send"
            \/ /\ i < Len(trace)
               /\ trace[i + 1].kind = "SEND"
               /\ trace[i + 1].line = trace[i].line
               /\ trace[i + 1].method = obj_def[LineOf(i)["type"]].create_method
               /\ trace[i + 1].url =
                    ResolvedOf(i).new_obj_url \o UrlEncode(ResolvedOf(i).query_params)
               /\ trace[i + 1].action = ACTION_TYPE_NEW
               /\ Cardinality({k \in EventsOf({"SEND"}) : trace[k].line = trace[i].line}) = 1
               /\ trace[i + 1].status # 0 =>
                    /\ i + 2 <= Len(trace)
                    /\ trace[i + 2].kind = "ADD"
                    /\ trace[i + 2].action = ACTION_TYPE_NEW
  /\ ActionCount(ACTION_TYPE_NEW) = Cardinality({k \in EventsOf({"SEND"}) : trace[k].status # 0})

C9_Witness ==
  \E i \in DOMAIN trace :
    /\ i + 2 <= Len(trace)
    /\ trace[i].kind = "HEAD" /\ trace[i].role = "object" /\ trace[i].action = "False"
    /\ trace[i + 1].kind = "SEND" /\ trace[i + 1].method = "POST"
    /\ trace[i + 1].url = Source1Url \o <<"concepts", "/">>
    /\ trace[i + 2].kind = "ADD" /\ trace[i + 2].action = ACTION_TYPE_NEW
    /\ ActionCount(ACTION_TYPE_NEW) >= 1

\* The object-level checks that found the object, in a run that is
\* configured to update and is not in test mode.
FoundForUpdate ==
  {i \in DOMAIN trace :
     trace[i].role = "object" /\ trace[i].action = "True"
     /\ do_update_if_exists /\ ~test_mode}

C11_TestModeSendsNothing ==
  test_mode =>
    /\ EventsOf({"SEND", "ADD", "HTTPError"}) = {}
    /\ \A i \in DOMAIN trace : trace[i].method \in {"", "HEAD"} \/ trace[i].kind = "NOSEND"
    /\ OutcomeCount = 0
    /\ ActionCount(ACTION_TYPE_NEW) = 0 /\ ActionCount(ACTION_TYPE_UPDATE) = 0

C11_Witness ==
  /\ test_mode
  /\ \E i \in EventsOf({"HEAD"}) : \E j \in EventsOf({"NOSEND"}) :
       /\ i < j /\ trace[i].line = trace[j].line
       /\ trace[i].role = "object" /\ trace[i].action = "False"
       /\ trace[j].action = ACTION_TYPE_NEW
  /\ pc = "loop"

\* The HEAD requests that were answered with a status other than 200 and 404.
UnexpectedAnswers ==
  {i \in EventsOf({"HEAD"}) :
     trace[i].status # 0 /\ trace[i].status \notin {StatusOk, StatusNotFound}}

\* C12: when an existence check (owner, repository or object) is answered
\* with a status other than 200 and 404, the record is given up without a
\* POST or PUT and without ending the run, in test mode too: process() goes
\* on to the next line.
C12_UnexpectedStatusGivesUpRecord ==
  \A i \in UnexpectedAnswers :
    /\ trace[i].action = "UnexpectedStatusCodeError"
    /\ i < Len(trace)
    /\ trace[i + 1] = SkipEvent(trace[i].line, "unexpected", trace[i].url)
    /\ \A k \in DOMAIN trace : (k > i + 1) => trace[k].line > trace[i].line
    /\ \A k \in EventsOf({"SEND", "NOSEND", "ADD"}) : trace[k].line # trace[i].line
    /\ ~CrashedAt(i)
    /\ count = trace[i].line => (pc \in {"loop", "done"} /\ cur = Idle)

C12_Witness ==
  \E i \in UnexpectedAnswers : \E k \in EventsOf({"HEAD"}) :
    /\ test_mode
    /\ trace[i].role = "owner"
    /\ trace[k].line = trace[i].line + 1
    /\ count = trace[i].line + 1

\* The first-level key the outcome of entry i of the trace is stored under.
RootOf(i) ==
  LoggingRoot(LineOf(i)["type"], ResolvedOf(i).obj_repo_url, ResolvedOf(i).obj_owner_url)

\* The outcomes recorded under a first-level key.
OutcomesUnder(root_key) == {i \in EventsOf({"ADD"}) : RootOf(i) = root_key}

\* First-level keys, recorded or not.
RootKeys ==
  (DOMAIN import_results.results)
    \cup {ORGS_RESULTS_ROOT, USERS_RESULTS_ROOT, Org1Url, Source1Url, Collection1Url, SKIP_KEY}

\* C13: has(root_key, limit_to_success_codes=True) is True exactly when at
\* least one outcome with a status code in 200..299 has been recorded under
\* root_key: it is False for a key that holds outcomes outside that range
\* only and for a key nothing was recorded under.
C13_HasSuccessIffSuccessRecorded ==
  \A root_key \in RootKeys :
    has(import_results, root_key, TRUE)
      <=> \E i \in OutcomesUnder(root_key) : trace[i].status \in 200..299

C13_Witness ==
  /\ OutcomesUnder(ORGS_RESULTS_ROOT) # {}
  /\ \A i \in OutcomesUnder(ORGS_RESULTS_ROOT) : trace[i].status = 300
  /\ ~has(import_results, ORGS_RESULTS_ROOT, TRUE)
  /\ \E i \in OutcomesUnder(Source1Url) : trace[i].status = 299
  /\ has(import_results, Source1Url, TRUE)
  /\ ~has(import_results, Org1Url, TRUE)

\* The outcomes of one action type and status code, under the given keys.
OutcomesWith(roots, action_type, status_code) ==
  {i \in EventsOf({"ADD"}) :
     RootOf(i) \in roots /\ trace[i].action = action_type /\ trace[i].status = status_code}

\* The action types and status codes of the outcomes.
ActionTypes == {ACTION_TYPE_NEW, ACTION_TYPE_UPDATE}
StatusCodes == {trace[i].status : i \in EventsOf({"ADD"})}

\* The counts of a summary are those of the outcomes under the given keys.
SummaryIsExact(summary, roots) ==
  \A action_type \in ActionTypes :
    /\ \A status_code \in StatusCodes :
         StatusCodeCount(summary, action_type, status_code)
           = Cardinality(OutcomesWith(roots, action_type, status_code))
    /\ ActionTypeCount(summary, action_type)
         = Cardinality({i \in EventsOf({"ADD"}) :
                          RootOf(i) \in roots /\ trace[i].action = action_type})

\* C14: the counts of get_detailed_summary are exact.  Without root_key the
\* count of every (action type, status code) is the number of outcomes
\* recorded with them over all roots, and the count of an action type is
\* the sum of those; with root_key the same holds for the outcomes under
\* that root.
C14_SummaryCountsExact ==
  /\ \A order \in KeyOrders(DOMAIN import_results.results) :
       SummaryIsExact(results_summary(import_results, order, FALSE),
                      DOMAIN import_results.results)
  /\ \A root_key \in DOMAIN import_results.results :
       SummaryIsExact(results_summary(import_results, <<root_key>>, FALSE), {root_key})

\* The types whose definition sets has_source and has_collection both.
InvalidTypes ==
  {t \in DOMAIN self_obj_def : self_obj_def[t].has_source /\ self_obj_def[t].has_collection}

\* The lines read so far whose type has an invalid definition.
InvalidTypeLines ==
  {n \in DOMAIN file : "type" \in DOMAIN file[n] /\ file[n]["type"] \in InvalidTypes}

\* C15 as stated: when the definition of a type sets has_source and
\* has_collection both, the run fails before any record is read or
\* processed: no existence check and no POST or PUT for any record, those
\* of other types that come earlier in the file included.
C15_FailsBeforeAnyRecord ==
  InvalidTypes # {} =>
    /\ EventsOf({"HEAD", "CACHE", "STUB", "SEND", "NOSEND", "ADD"}) = {}
    /\ import_results.count = 0

\* C15 as amended: the run fails with InvalidObjectDefinition at the first
\* record of such a type, before any existence check, POST or PUT for that
\* record, and no line is read after it; no other record raises it.
C15_FailsAtFirstRecordOfType ==
  /\ \A n \in InvalidTypeLines :
       /\ n = count /\ pc = "crashed" /\ error = "InvalidObjectDefinition"
       /\ \E i \in EventsOf({"RAISE"}) :
            trace[i].line = n /\ trace[i].action = "InvalidObjectDefinition"
       /\ \A i \in DOMAIN trace : trace[i].line = n => trace[i].kind = "RAISE"
  /\ error = "InvalidObjectDefinition" => count \in InvalidTypeLines

C15_Witness ==
  /\ InvalidTypeLines = {2}
  /\ error = "InvalidObjectDefinition"
  /\ \E i \in EventsOf({"HEAD"}) : trace[i].line = 1
  /\ \E i \in EventsOf({"SEND"}) : trace[i].line = 1 /\ trace[i].status = 201

\* process_object has resolved the addresses of the record in hand.
Resolved == pc = "owner" /\ count = 1

\* C16: for a record that carries an id the addresses have the shape of its
\* type.  Concept: creation = repository + 'concepts/', object = creation +
\* id + '/'.  Source and collection version: creation = repository +
\* 'versions/', object = repository + id + '/'.  Source and collection:
\* creation = owner + url_name + '/', object = creation + id + '/'.
\* Organization: creation = '/orgs/', object = '/orgs/' + id + '/'.  The
\* concept {id C1, source S1, owner Org1, owner_type Organization} resolves
\* to '/orgs/Org1/', '/orgs/Org1/sources/S1/', '.../concepts/' and
\* '.../concepts/C1/'.
C16_AddressShapes ==
  (Resolved /\ cur.obj_id # << >>) =>
    /\ cur.obj_type = OBJ_TYPE_CONCEPT =>
         /\ cur.new_obj_url = cur.obj_repo_url \o <<"concepts", "/">>
         /\ cur.obj_url = cur.new_obj_url \o cur.obj_id \o <<"/">>
    /\ cur.obj_type \in {OBJ_TYPE_SOURCE_VERSION, OBJ_TYPE_COLLECTION_VERSION} =>
         /\ cur.new_obj_url = cur.obj_repo_url \o <<"versions", "/">>
         /\ cur.obj_url = cur.obj_repo_url \o cur.obj_id \o <<"/">>
    /\ cur.obj_type = OBJ_TYPE_SOURCE =>
         /\ cur.new_obj_url = cur.obj_owner_url \o <<"sources", "/">>
         /\ cur.obj_url = cur.new_obj_url \o cur.obj_id \o <<"/">>
    /\ cur.obj_type = OBJ_TYPE_COLLECTION =>
         /\ cur.new_obj_url = cur.obj_owner_url \o <<"collections", "/">>
         /\ cur.obj_url = cur.new_obj_url \o cur.obj_id \o <<"/">>
    /\ cur.obj_type = OBJ_TYPE_ORGANIZATION =>
         /\ cur.new_obj_url = <<"/", "orgs", "/">>
         /\ cur.obj_url = <<"/", "orgs", "/">> \o cur.obj_id \o <<"/">>
    /\ file[1] = LineConcept =>
         /\ cur.obj_owner_url = <<"/", "orgs", "/", "Org1", "/">>
         /\ cur.obj_repo_url = <<"/", "orgs", "/", "Org1", "/", "sources", "/", "S1", "/">>
         /\ cur.new_obj_url = cur.obj_repo_url \o <<"concepts", "/">>
         /\ cur.obj_url = cur.obj_repo_url \o <<"concepts", "/", "C1", "/">>

C16_Witness ==
  /\ Resolved
  /\ file[1] = LineConcept
  /\ cur.obj_url = <<"/", "orgs", "/", "Org1", "/", "sources", "/", "S1", "/", "concepts", "/",
                     "C1", "/">>

\* The record in hand is a mapping or a reference whose addresses are resolved.
ResolvedMapping == Resolved /\ cur.obj_type = OBJ_TYPE_MAPPING
ResolvedReference == Resolved /\ cur.obj_type = OBJ_TYPE_REFERENCE

\* C17 as stated: for every mapping and every reference record, whatever
\* its fields, the creation address and the object address are the same:
\* repository + 'mappings/' or repository + 'references/'.
C17_MappingReferenceOneAddress ==
  /\ ResolvedMapping =>
       /\ cur.new_obj_url = cur.obj_repo_url \o <<"mappings", "/">>
       /\ cur.obj_url = cur.new_obj_url
  /\ ResolvedReference =>
       /\ cur.new_obj_url = cur.obj_repo_url \o <<"references", "/">>
       /\ cur.obj_url = cur.new_obj_url

\* C17 as amended: the creation address and the object address are the
\* same, repository + url_name + '/', for every reference record and for
\* every mapping record without an id; a mapping record with an id has the
\* object address creation + id + '/'.
C17_OneAddressUnlessMappingHasId ==
  /\ ResolvedMapping =>
       /\ cur.new_obj_url = cur.obj_repo_url \o <<"mappings", "/">>
       /\ cur.obj_id = (IF "id" \in DOMAIN file[1] THEN file[1]["id"] ELSE << >>)
       /\ cur.obj_url = IF cur.obj_id = << >> THEN cur.new_obj_url
                        ELSE cur.new_obj_url \o cur.obj_id \o <<"/">>
  /\ ResolvedReference =>
       /\ cur.new_obj_url = cur.obj_repo_url \o <<"references", "/">>
       /\ cur.obj_url = cur.new_obj_url
       /\ cur.obj_id = << >>

C17_Witness ==
  /\ ResolvedMapping
  /\ "id" \in DOMAIN file[1]
  /\ cur.obj_repo_url = Source1Url
  /\ cur.new_obj_url = Source1Url \o <<"mappings", "/">>
  /\ cur.obj_url = Source1Url \o <<"mappings", "/", "X1", "/">>

\* A hierarchical path: it starts and ends with a separator and no two
\* separators are adjacent.
WellFormed(url) ==
  /\ Len(url) >= 1
  /\ url[1] = "/" /\ url[Len(url)] = "/"
  /\ \A i \in 1..(Len(url) - 1) : ~(url[i] = "/" /\ url[i + 1] = "/")

\* The addresses a record gives for its owner and repository are paths.
ValidFields(line) ==
  \A k \in {"owner_url", "source_url", "collection_url"} :
    k \in DOMAIN line => WellFormed(line[k])

\* C18: for every record of a known type with valid owner and repository
\* fields, one without an id included, the object address is a well-formed
\* path: it starts and ends with a separator and has no empty segment.
C18_ObjectAddressWellFormed ==
  (Resolved /\ ValidFields(file[1])) => WellFormed(cur.obj_url)

\* The line in hand is of a type with an owner and names it by owner and
\* owner_type, without owner_url.
OwnerByName ==
  /\ count = 1 /\ pc \in {"owner", "crashed"}
  /\ obj_def[file[1]["type"]].has_owner
  /\ "owner_url" \notin DOMAIN file[1]
  /\ "owner" \in DOMAIN file[1] /\ "owner_type" \in DOMAIN file[1]

\* C19: a record without owner_url and with owner and owner_type gets its
\* owner address from the owner type: 'User' gives '/users/<owner>/',
\* 'Organization' gives '/orgs/<owner>/', and any other value raises
\* InvalidOwnerError.
C19_OwnerAddressFromOwnerType ==
  OwnerByName =>
    /\ file[1]["owner_type"] = "User" =>
         /\ error \notin {"InvalidOwnerError", "KeyError"}
         /\ Resolved => cur.obj_owner_url = <<"/", "users", "/">> \o file[1]["owner"] \o <<"/">>
    /\ file[1]["owner_type"] = "Organization" =>
         /\ error \notin {"InvalidOwnerError", "KeyError"}
         /\ Resolved => cur.obj_owner_url = <<"/", "orgs", "/">> \o file[1]["owner"] \o <<"/">>
    /\ file[1]["owner_type"] \notin {"User", "Organization"} => error = "InvalidOwnerError"

\* The prefix of an address up to and including its third separator.
ThroughThirdSeparator(url) ==
  LET ends == {n \in 1..Len(url) :
                 url[n] = "/" /\ Cardinality({k \in 1..n : url[k] = "/"}) = 3}
  IN SubSeq(url, 1, CHOOSE n \in ends : TRUE)
HasThirdSeparator(url) == Cardinality({k \in 1..Len(url) : url[k] = "/"}) >= 3

\* The line in hand is of a type with an owner.
OwnerNeeded == count = 1 /\ pc \in {"owner", "crashed"} /\ obj_def[file[1]["type"]].has_owner

\* The ways a line names its owner, in the order of the resolution.
ByOwnerUrl == "owner_url" \in DOMAIN file[1]
ByOwnerName == ~ByOwnerUrl /\ "owner" \in DOMAIN file[1] /\ "owner_type" \in DOMAIN file[1]
BySourceUrl ==
  /\ ~ByOwnerUrl /\ ~ByOwnerName
  /\ obj_def[file[1]["type"]].has_source /\ "source_url" \in DOMAIN file[1]
ByCollectionUrl ==
  /\ ~ByOwnerUrl /\ ~ByOwnerName
  /\ obj_def[file[1]["type"]].has_collection /\ "collection_url" \in DOMAIN file[1]

\* The owner is taken from owner_url, and owner and owner_type are dropped.
C20_OwnerUrlFirst ==
  (OwnerNeeded /\ ByOwnerUrl) =>
    /\ error # "InvalidOwnerError"
    /\ Resolved =>
         /\ cur.obj_owner_url = file[1]["owner_url"]
         /\ {"owner_url", "owner", "owner_type"}
               \cap ((DOMAIN cur.obj) \cup (DOMAIN cur.obj_not_allowed)) = {}

\* The owner is derived from the address of the repository.
C20_DerivedFromRepository ==
  /\ (OwnerNeeded /\ BySourceUrl /\ HasThirdSeparator(file[1]["source_url"]) /\ Resolved)
       => cur.obj_owner_url = ThroughThirdSeparator(file[1]["source_url"])
  /\ (OwnerNeeded /\ ByCollectionUrl /\ HasThirdSeparator(file[1]["collection_url"])
         /\ Resolved)
       => cur.obj_owner_url = ThroughThirdSeparator(file[1]["collection_url"])

\* No way is left to name the owner.
C20_ElseInvalidOwner ==
  (OwnerNeeded /\ ~ByOwnerUrl /\ ~ByOwnerName /\ ~BySourceUrl /\ ~ByCollectionUrl)
    => error = "InvalidOwnerError"

\* The resolution does not succeed with an empty or missing owner address.
C20_OwnerNeverEmpty ==
  (OwnerNeeded /\ Resolved) => (cur.obj_owner_url # None /\ cur.obj_owner_url # << >>)

\* C20: for a type with an owner the owner address comes from owner_url
\* (owner and owner_type are then dropped), else from owner and owner_type,
\* else from source_url, else from collection_url, else InvalidOwnerError
\* is raised; a derived owner address is the repository address up to and
\* including its third '/', and the resolution never succeeds with an
\* empty or missing owner address.
C20_OwnerResolutionOrder ==
  /\ C20_OwnerUrlFirst
  /\ C20_DerivedFromRepository
  /\ C20_ElseInvalidOwner
  /\ C20_OwnerNeverEmpty

\* The fields process_object takes out of a record for the owner and the
\* repository, and the type tag process() takes out.
ConsumedKeys ==
  {"type", "owner", "owner_type", "owner_url", "source", "source_url", "collection",
   "collection_url"}

\* C21: the body of every request that is sent holds keys of the type's
\* allowed_fields only: neither the type tag, nor the owner and repository
\* fields, nor '__cascade' (which goes to the query string of a reference),
\* nor any other key; every allowed key of the record is sent with its
\* value; the kept and the removed fields are disjoint and cover what is
\* left of the record.  Of the concept {id, concept_class, datatype,
\* extras, source, owner, owner_type} the keys id, concept_class, datatype
\* and extras are sent.
C21_PayloadIsAllowedFields ==
  \A i \in EventsOf({"SEND"}) :
    LET line == LineOf(i)
        allowed == obj_def[line["type"]].allowed_fields
        data == trace[i].data
        r == ResolvedOf(i)
    IN /\ DOMAIN data \subseteq allowed
       /\ (DOMAIN data) \cap (ConsumedKeys \cup {"__cascade"}) = {}
       /\ DOMAIN data = (DOMAIN line) \cap allowed
       /\ \A k \in DOMAIN data : data[k] = line[k]
       /\ (DOMAIN r.obj) \cap (DOMAIN r.obj_not_allowed) = {}
       /\ (DOMAIN line) \ (ConsumedKeys \cup {"__cascade"})
            \subseteq (DOMAIN r.obj) \cup (DOMAIN r.obj_not_allowed)
       /\ (DOMAIN r.obj) \cup (DOMAIN r.obj_not_allowed) \subseteq (DOMAIN line) \ {"type"}
       /\ ("__cascade" \in DOMAIN line /\ line["type"] = OBJ_TYPE_REFERENCE) =>
            trace[i].url = r.new_obj_url \o <<"?", "cascade", "=">> \o line["__cascade"]
       /\ line = LineConcept => DOMAIN data = {"id", "concept_class", "datatype", "extras"}

C21_Witness ==
  /\ \E i \in EventsOf({"SEND"}) :
       /\ LineOf(i) = LineConcept
       /\ DOMAIN trace[i].data = {"id", "concept_class", "datatype", "extras"}
  /\ \E i \in EventsOf({"SEND"}) :
       /\ LineOf(i) = LineMapping
       /\ DOMAIN trace[i].data = {"map_type"}

\* The place of an entry in process_object: owner, repository, object,
\* update_or_create.
Rank(role) ==
  CASE role = "owner" -> 1 [] role = "repo" -> 2 [] role = "object" -> 3
    [] role = "send" -> 4 [] OTHER -> 0

\* The calls of does_object_exist of one line for one role that came before
\* entry i and found the address.
FoundBefore(i, role) ==
  {k \in EventsOf({"HEAD", "CACHE"}) :
     k < i /\ trace[k].line = trace[i].line /\ trace[k].role = role
     /\ trace[k].action = "True"}

\* The checks of one record come in the order owner, repository, object,
\* and update_or_create comes last.
C22_ProbesInOrder ==
  \A i \in DOMAIN trace : \A j \in DOMAIN trace :
    (i < j /\ trace[i].line = trace[j].line /\ Rank(trace[i].role) > 0
     /\ Rank(trace[j].role) > 0 /\ trace[i].kind # "SKIP" /\ trace[j].kind # "SKIP")
      => Rank(trace[i].role) < Rank(trace[j].role)
         \/ (trace[i].role = "send" /\ trace[j].role = "send")

\* A request is sent for a record only after its owner and its repository,
\* each when the type has one, were found.
C22_SentOnlyAfterFound ==
  \A i \in EventsOf({"SEND"}) :
    LET def == obj_def[LineOf(i)["type"]]
    IN /\ def.has_owner => FoundBefore(i, "owner") # {}
       /\ (def.has_source \/ def.has_collection) => FoundBefore(i, "repo") # {}

\* Outside test mode an owner or repository that was not found ends the
\* record before the check of the object, and an object that was found
\* gets no request when do_update_if_exists is False.
C22_NotFoundStopsRecord ==
  ~test_mode =>
    \A i \in EventsOf({"HEAD", "CACHE"}) :
      /\ (trace[i].role \in {"owner", "repo"} /\ trace[i].action = "False")
           => ObjectLevelOps(trace[i].line) = {}
      /\ (trace[i].role = "object" /\ trace[i].action = "True" /\ ~do_update_if_exists)
           => \A k \in EventsOf({"SEND"}) : trace[k].line # trace[i].line

\* In test mode the record goes on after an owner or repository that was
\* not found.
C22_TestModeGoesOn ==
  test_mode =>
    \A i \in EventsOf({"HEAD", "CACHE"}) :
      (trace[i].role \in {"owner", "repo"} /\ trace[i].action = "False")
        => \/ i = Len(trace) /\ count = trace[i].line /\ pc \in {"repo", "object"}
           \/ /\ i < Len(trace)
              /\ trace[i + 1].line = trace[i].line
              /\ Rank(trace[i + 1].role) > Rank(trace[i].role)

\* C22: outside test mode the checks of one record come in the order
\* owner, repository, object; a POST or PUT is sent only if the owner and
\* the repository, each when the type has one, were found before the check
\* of the object; after a not-found owner or repository there is neither a
\* check of the object nor a request, and an object that is found gets no
\* request when do_update_if_exists is False.  In test mode a not-found
\* owner or repository does not stop the record.
C22_ProbeOrderAndGate ==
  /\ C22_ProbesInOrder
  /\ C22_SentOnlyAfterFound
  /\ C22_NotFoundStopsRecord
  /\ C22_TestModeGoesOn

\* The first-level keys the outcome of entry i of the trace is found under.
StoredUnder(i) ==
  {k \in DOMAIN import_results.results :
     /\ trace[i].action \in DOMAIN import_results.results[k]
     /\ LET v == import_results.results[k][trace[i].action]
        IN /\ v.kind = "dict"
           /\ trace[i].status \in DOMAIN v.d
           /\ \E n \in DOMAIN v.d[trace[i].status] :
                v.d[trace[i].status][n] = <<trace[i].method, trace[i].url>>}

\* C23: every outcome add() records is stored under the owner address of
\* the record when it is a source or a collection, and under its repository
\* address when it is a concept, a mapping, a reference or a source or
\* collection version; nothing is stored under an empty logging root.
C23_StoredUnderOwnerOrRepository ==
  /\ \A i \in EventsOf({"ADD"}) :
       LET t == LineOf(i)["type"]
       IN /\ t \in {OBJ_TYPE_SOURCE, OBJ_TYPE_COLLECTION}
               => ResolvedOf(i).obj_owner_url \in StoredUnder(i)
          /\ t \in {OBJ_TYPE_CONCEPT, OBJ_TYPE_MAPPING, OBJ_TYPE_REFERENCE,
                     OBJ_TYPE_SOURCE_VERSION, OBJ_TYPE_COLLECTION_VERSION}
               => ResolvedOf(i).obj_repo_url \in StoredUnder(i)
  /\ << >> \notin DOMAIN import_results.results

\* The keys of OCL_EXPORT_DEFS under whose endpoint a 2xx outcome was
\* recorded, and the version requests a key got.
ChangedExports ==
  {k \in DOMAIN OCL_EXPORT_DEFS :
     \E i \in OutcomesUnder(OCL_EXPORT_DEFS[k].endpoint) : trace[i].status \in 200..299}
VersionRequests(k) ==
  {i \in EventsOf({"VERSION"}) :
     trace[i].url = OCL_EXPORT_DEFS[k].endpoint \o <<"versions", "/">>}

\* increment_ocl_versions was called and is over, by return or exception.
IncrementOver == pc \in {"done", "crashed"}

\* C24 as stated: a repository of OCL_EXPORT_DEFS gets a POST to
\* <endpoint>versions/ if and only if a 2xx outcome is recorded under its
\* endpoint: none without, and exactly one with, whatever happens to the
\* requests for the other repositories.
C24_VersionIffSuccess ==
  /\ \A k \in DOMAIN OCL_EXPORT_DEFS : k \notin ChangedExports => VersionRequests(k) = {}
  /\ IncrementOver =>
       \A k \in ChangedExports : Cardinality(VersionRequests(k)) = 1

\* The keys the loop has come to, the one in hand at an exception included.
ExportsReached ==
  IF pc \notin {"versions", "done", "crashed"} THEN {}
  ELSE {cur.order[n] : n \in 1..(IF pc = "crashed" THEN cur.cnt + 1 ELSE cur.cnt)}

\* C24 as amended: a repository without a 2xx outcome never gets a version
\* request; the loop sends one request to each repository with a 2xx
\* outcome it comes to; a request that gets no response or an error status
\* ends the call with the exception, and the repositories after it get no
\* request; when the call returns, every repository with a 2xx outcome got
\* exactly one.
C24_VersionUntilFirstFailure ==
  /\ \A k \in DOMAIN OCL_EXPORT_DEFS : k \notin ChangedExports => VersionRequests(k) = {}
  /\ \A k \in ChangedExports :
       Cardinality(VersionRequests(k)) = (IF k \in ExportsReached THEN 1 ELSE 0)
  /\ \A i \in EventsOf({"VERSION"}) :
       (trace[i].status = 0 \/ IsErrorStatus(trace[i].status))
         => (i = Len(trace) /\ pc = "crashed"
             /\ error = (IF trace[i].status = 0 THEN "ConnectionError" ELSE "HTTPError"))
  /\ pc = "done" => \A k \in ChangedExports : Cardinality(VersionRequests(k)) = 1

C24_Witness ==
  /\ ChangedExports = {"S1", "Col1"}
  /\ pc = "crashed" /\ error = "HTTPError"
  /\ Cardinality(EventsOf({"VERSION"})) = 1
  /\ \E k \in ChangedExports : VersionRequests(k) = {}

====
